---- MODULE Spec2Model ----
(***************************************************************************)
(* Lenses over immutable nested data, as src/index.js builds and applies   *)
(* them.  JavaScript objects and arrays live in a heap of cells, so that   *)
(* "returns a copy" and "does not mutate" are facts about cells and not    *)
(* conventions of the notation.  The library calls of the script (lens,    *)
(* view, set, over, prop, assoc, lensProp, lensIndex, lensPath, compose,   *)
(* pipe, toUpper) are modelled by what Ramda (0.27 and later) computes.    *)
(***************************************************************************)
EXTENDS Integers, Sequences, FiniteSets, TLC

VARIABLES
    heap,     \* the cells allocated so far; a reference is an index into it
    base,     \* cells 1..base hold the script's constants; those above are the last call's
    person,   \* the value of the script's constant `person`
    updated,  \* the value of the script's constant `updatedPerson`, undefined until built
    g,        \* a partially applied operator the script holds (view(L), set(L, v), ...)
    op,       \* the last call made: operator, lens, function, data
    res       \* what the last call returned (or that it threw)

vars == <<heap, base, person, updated, g, op, res>>

(***************************************************************************)
(* Bounds of the input space.                                              *)
(***************************************************************************)
MaxPhones == 2

(***************************************************************************)
(* JavaScript values.  Every value is a record of the same three fields.   *)
(***************************************************************************)
Str(s) == [t |-> "str", s |-> s, n |-> 0]
Num(i) == [t |-> "num", s |-> "", n |-> i]
Ref(a) == [t |-> "ref", s |-> "", n |-> a]
Undef == [t |-> "undef", s |-> "", n |-> 0]
\* an array slot that was never assigned: reads as undefined, is no own key
Hole == [t |-> "hole", s |-> "", n |-> 0]
\* the call ended with a TypeError instead of a value
Threw == [t |-> "throw", s |-> "TypeError", n |-> 0]
\* the call left the part of JavaScript this model describes
Unmodelled == [t |-> "unmodelled", s |-> "", n |-> 0]

IsAbrupt(v) == v.t \in {"throw", "unmodelled"}
IsNil(v) == v.t = "undef"
IsObj(h, v) == v.t = "ref" /\ h[v.n].kind = "obj"
IsArr(h, v) == v.t = "ref" /\ h[v.n].kind = "arr"

ObjCell(ks, vs) == [kind |-> "obj", keys |-> ks, vals |-> vs]
ArrCell(vs) == [kind |-> "arr", keys |-> <<>>, vals |-> vs]

\* the result of an evaluation: the heap it leaves and the value it yields
Out(h, r) == [h |-> h, r |-> r]
Alloc(h, c) == Out(Append(h, c), Ref(Len(h) + 1))

KeyIdx(c, k) ==
    IF \E j \in 1..Len(c.keys) : c.keys[j] = k
    THEN CHOOSE j \in 1..Len(c.keys) : c.keys[j] = k
    ELSE 0

\* own enumerable property test, as Object.prototype.hasOwnProperty
Has(h, x, key) ==
    IF x.t # "ref" THEN FALSE
    ELSE IF h[x.n].kind = "obj" THEN key.t = "str" /\ KeyIdx(h[x.n], key.s) # 0
    ELSE key.t = "num" /\ key.n >= 0 /\ key.n < Len(h[x.n].vals)
         /\ h[x.n].vals[key.n + 1] # Hole

\* x[key] in JavaScript
Member(h, x, key) ==
    IF IsAbrupt(x) THEN x
    ELSE IF x.t = "undef" THEN Threw
    ELSE IF x.t = "str" THEN (IF key.t = "str" THEN Undef ELSE Unmodelled)
    ELSE IF x.t # "ref" THEN Unmodelled
    ELSE IF Has(h, x, key)
         THEN (IF h[x.n].kind = "obj" THEN h[x.n].vals[KeyIdx(h[x.n], key.s)]
               ELSE h[x.n].vals[key.n + 1])
         ELSE Undef

\* the cell {...c, [k]: v}: k keeps its place when c has it, else it is added last
ObjPut(c, k, v) ==
    IF KeyIdx(c, k) # 0
    THEN ObjCell(c.keys, [c.vals EXCEPT ![KeyIdx(c, k)] = v])
    ELSE ObjCell(Append(c.keys, k), Append(c.vals, v))

\* the cell of a copy of array c with c[i] = v; slots skipped over are holes
ArrPut(c, i, v) ==
    ArrCell([j \in 1..(IF i + 1 > Len(c.vals) THEN i + 1 ELSE Len(c.vals)) |->
                IF j = i + 1 THEN v
                ELSE IF j <= Len(c.vals) THEN c.vals[j] ELSE Hole])

EmptyObj == ObjCell(<<>>, <<>>)

\* what object spread {...x} copies: the own keys of an object, nothing of undefined
SpreadCell(h, x) == IF IsObj(h, x) THEN h[x.n] ELSE EmptyObj
CanSpread(h, x) == IsObj(h, x) \/ IsNil(x)

(***************************************************************************)
(* Deep equality of a value in one heap with a value in another, as        *)
(* R.equals: same type, same own keys, equal values under each key.        *)
(***************************************************************************)
RECURSIVE DeepEq(_, _, _, _)
DeepEq(h1, v1, h2, v2) ==
    IF v1.t # "ref" \/ v2.t # "ref" THEN v1 = v2
    ELSE LET c1 == h1[v1.n]
             c2 == h2[v2.n]
         IN  /\ c1.kind = c2.kind
             /\ IF c1.kind = "arr"
                THEN /\ Len(c1.vals) = Len(c2.vals)
                     /\ \A j \in 1..Len(c1.vals) :
                            DeepEq(h1, c1.vals[j], h2, c2.vals[j])
                ELSE /\ {c1.keys[j] : j \in 1..Len(c1.keys)}
                            = {c2.keys[j] : j \in 1..Len(c2.keys)}
                     /\ \A j \in 1..Len(c1.keys) :
                            DeepEq(h1, c1.vals[j], h2, c2.vals[KeyIdx(c2, c1.keys[j])])

(***************************************************************************)
(* Functions as values: the getters, setters and transforms the script     *)
(* hands to the library.  k is a property name or index, p a path, v the   *)
(* constant of always(v).                                                  *)
(***************************************************************************)
Fn(name, k, p, v) == [fn |-> name, k |-> k, p |-> p, v |-> v]
NoFn == Fn("none", Undef, <<>>, Undef)

\* const getFirstName = data => data.name.first
getFirstName(h, data) == Member(h, Member(h, data, Str("name")), Str("first"))

\* setFirstName written as an assignment: data.name.first = value; return data
setFirstNameInPlace(value, h, data) ==
    IF ~IsObj(h, data) \/ ~IsObj(h, Member(h, data, Str("name"))) THEN Out(h, Threw)
    ELSE Out([h EXCEPT ![Member(h, data, Str("name")).n] = ObjPut(@, "first", value)], data)

\* setFirstName without the spread of data.name: ({...data, name: {first: value}})
setFirstNameNoSpread(value, h, data) ==
    IF ~IsObj(h, data) THEN Out(h, Threw)
    ELSE LET name == Alloc(h, ObjCell(<<"first">>, <<value>>))
         IN  Alloc(name.h, ObjPut(h[data.n], "name", name.r))

\* const setFirstName = (value, data) => ({...data, name: {...data.name, first: value}})
setFirstName(value, h, data) ==
    IF IsAbrupt(data) THEN Out(h, data)
    ELSE IF IsNil(data) THEN Out(h, Threw)
    ELSE IF ~IsObj(h, data) \/ ~CanSpread(h, Member(h, data, Str("name")))
    THEN Out(h, Unmodelled)
    ELSE LET name == Alloc(h, ObjPut(SpreadCell(h, Member(h, data, Str("name"))),
                                     "first", value))
         IN  Alloc(name.h, ObjPut(h[data.n], "name", name.r))

\* R.prop(k, x): undefined for a nil x, else x[k]
R_prop(k, h, x) == IF IsNil(x) THEN Undef ELSE Member(h, x, k)

\* R.nth(i, x): x[i], counting from the end for a negative i
R_nth(i, h, x) ==
    IF IsAbrupt(x) THEN x
    ELSE IF IsNil(x) THEN Threw
    ELSE IF IsArr(h, x)
    THEN Member(h, x, Num(IF i < 0 THEN Len(h[x.n].vals) + i ELSE i))
    ELSE IF x.t = "str" \/ i < 0 THEN Unmodelled
    ELSE Member(h, x, Num(i))

\* path without the stop at a nil level
RECURSIVE PathFromUnguarded(_, _, _, _)
PathFromUnguarded(p, j, h, val) ==
    IF j > Len(p) \/ IsAbrupt(val) THEN val
    ELSE PathFromUnguarded(p, j + 1, h,
                           IF p[j].t = "num" THEN R_nth(p[j].n, h, val)
                           ELSE Member(h, val, p[j]))

\* R.path(p, x): walks p from x and stops with undefined at the first nil level
RECURSIVE PathFrom(_, _, _, _)
PathFrom(p, j, h, val) ==
    IF j > Len(p) \/ IsAbrupt(val) THEN val
    ELSE IF IsNil(val) THEN Undef
    ELSE PathFrom(p, j + 1, h,
                  IF p[j].t = "num" THEN R_nth(p[j].n, h, val) ELSE Member(h, val, p[j]))

\* path that follows the first segment only
R_pathFirst(p, h, x) == PathFrom(<<p[1]>>, 1, h, x)

R_path(p, h, x) == PathFrom(p, 1, h, x)

\* assoc that leaves a key x already has as it is
R_assocKeepOld(k, v, h, x) ==
    IF k.t = "str" /\ IsObj(h, x)
    THEN Alloc(h, IF KeyIdx(h[x.n], k.s) # 0 THEN h[x.n] ELSE ObjPut(h[x.n], k.s, v))
    ELSE IF k.t = "str" /\ IsNil(x) THEN Alloc(h, ObjPut(EmptyObj, k.s, v))
    ELSE Out(h, Unmodelled)

\* R.assoc(k, v, x): a shallow copy of x with x[k] = v; a nil x copies as {}
R_assoc(k, v, h, x) ==
    IF IsAbrupt(x) THEN Out(h, x)
    ELSE IF k.t = "num" /\ IsArr(h, x) THEN Alloc(h, ArrPut(h[x.n], k.n, v))
    ELSE IF k.t = "str" /\ CanSpread(h, x) THEN Alloc(h, ObjPut(SpreadCell(h, x), k.s, v))
    ELSE Out(h, Unmodelled)

\* R.assocPath(p, v, x): copies every level along p, creating the absent ones
\* ([] before an index, {} before a name)
RECURSIVE AssocPathFrom(_, _, _, _, _)
AssocPathFrom(p, j, v, h, x) ==
    IF j > Len(p) THEN Out(h, v)
    ELSE LET idx == p[j]
             next == IF ~IsNil(x) /\ Has(h, x, idx) /\ Member(h, x, idx).t = "ref"
                     THEN Out(h, Member(h, x, idx))
                     ELSE IF p[j + 1].t = "num" THEN Alloc(h, ArrCell(<<>>))
                     ELSE Alloc(h, EmptyObj)
             inner == IF j < Len(p) THEN AssocPathFrom(p, j + 1, v, next.h, next.r)
                      ELSE Out(h, v)
         IN  IF IsAbrupt(inner.r) THEN inner
             ELSE IF idx.t = "num" /\ IsArr(inner.h, x)
             THEN Alloc(inner.h, ArrPut(inner.h[x.n], idx.n, inner.r))
             ELSE R_assoc(idx, inner.r, inner.h, x)

R_assocPath(p, v, h, x) == AssocPathFrom(p, 1, v, h, x)

\* update that writes one position too far
R_updateNext(i, v, h, x) ==
    IF ~IsArr(h, x) THEN Out(h, Threw)
    ELSE IF i >= Len(h[x.n].vals) THEN Out(h, x)
    ELSE Alloc(h, ArrPut(h[x.n], i + 1, v))

\* R.update(i, v, x) = R.adjust(i, R.always(v), x): x itself when i is out of
\* range, else a copy of x with x[i] = v
R_update(i, v, h, x) ==
    IF IsAbrupt(x) THEN Out(h, x)
    ELSE IF IsNil(x) THEN Out(h, Threw)
    ELSE IF ~IsArr(h, x) THEN Out(h, Unmodelled)
    ELSE LET len == Len(h[x.n].vals)
         IN  IF i >= len \/ i < -len THEN Out(h, x)
             ELSE Alloc(h, ArrPut(h[x.n], (len + i) % len, v))

\* String.prototype.toUpperCase on the strings of the model
Upper(s) ==
    CASE s = "John" -> "JOHN"
      [] s = "Jane" -> "JANE"
      [] s = "Doe" -> "DOE"
      [] s = "Smith" -> "SMITH"
      [] OTHER -> s

\* R.toUpper(x): a TypeError for anything but a string
R_toUpper(x) == IF x.t = "str" THEN Str(Upper(x.s)) ELSE Threw

\* const sayHello = name => `Hello ${name}`
sayHello(h, name) ==
    IF name.t = "str" THEN Str("Hello " \o name.s)
    ELSE IF IsNil(name) THEN Str("Hello undefined")
    ELSE IF IsObj(h, name) THEN Str("Hello [object Object]")
    ELSE Unmodelled

\* f(x) for a function value f
ApplyGetter(f, h, x) ==
    CASE f.fn = "getFirstName" -> getFirstName(h, x)
      [] f.fn = "prop" -> R_prop(f.k, h, x)
      [] f.fn = "nth" -> R_nth(f.k.n, h, x)
      [] f.fn = "path" -> R_path(f.p, h, x)
      [] OTHER -> Unmodelled

\* f(v, x) for a setter f
ApplySetter(f, v, h, x) ==
    CASE f.fn = "setFirstName" -> setFirstName(v, h, x)
      [] f.fn = "assoc" -> R_assoc(f.k, v, h, x)
      [] f.fn = "update" -> R_update(f.k.n, v, h, x)
      [] f.fn = "assocPath" -> R_assocPath(f.p, v, h, x)
      [] OTHER -> Out(h, Unmodelled)

\* f(x) for a transform f handed to over
ApplyFn(f, h, x) ==
    IF IsAbrupt(x) THEN x
    ELSE CASE f.fn = "always" -> f.v
           [] f.fn = "toUpper" -> R_toUpper(x)
           [] f.fn = "sayHello" -> sayHello(h, x)
           [] OTHER -> Unmodelled

(***************************************************************************)
(* Lenses.  R.lens(getter, setter) is a function from a functor-returning  *)
(* function to a function of the data; R.compose of lenses is function     *)
(* composition.  A lens value is recorded by how it was built.             *)
(***************************************************************************)
\* compose of two functions applied left to right, as pipe
R_composeAsPipe(fs) ==
    [kind |-> "compose", g |-> NoFn, s |-> NoFn,
     parts |-> IF Len(fs) = 2 THEN <<fs[2], fs[1]>> ELSE fs]

R_lens(getter, setter) == [kind |-> "lens", g |-> getter, s |-> setter, parts |-> <<>>]
R_compose(fs) == [kind |-> "compose", g |-> NoFn, s |-> NoFn, parts |-> fs]
NoLens == [kind |-> "none", g |-> NoFn, s |-> NoFn, parts |-> <<>>]

R_lensProp(k) == R_lens(Fn("prop", Str(k), <<>>, Undef), Fn("assoc", Str(k), <<>>, Undef))
R_lensIndex(i) == R_lens(Fn("nth", Num(i), <<>>, Undef), Fn("update", Num(i), <<>>, Undef))
R_lensPath(p) == R_lens(Fn("path", Undef, p, Undef), Fn("assocPath", Undef, p, Undef))

\* K is the chain of lenses still to be entered, outermost first.  With the
\* Const functor (view) a lens hands its getter's result inwards and its
\* setter is never called.
RECURSIVE ViewK(_, _, _)
ViewK(K, h, x) ==
    IF K = <<>> \/ IsAbrupt(x) THEN x
    ELSE IF Head(K).kind = "compose" THEN ViewK(Head(K).parts \o Tail(K), h, x)
    ELSE ViewK(Tail(K), h, ApplyGetter(Head(K).g, h, x))

\* With the Identity functor (over) a lens calls its getter, hands the result
\* inwards, and calls its setter with what comes back and the data it was given.
RECURSIVE OverK(_, _, _, _)
OverK(K, f, h, x) ==
    IF IsAbrupt(x) THEN Out(h, x)
    ELSE IF K = <<>> THEN Out(h, ApplyFn(f, h, x))
    ELSE IF Head(K).kind = "compose" THEN OverK(Head(K).parts \o Tail(K), f, h, x)
    ELSE LET inner == OverK(Tail(K), f, h, ApplyGetter(Head(K).g, h, x))
         IN  IF IsAbrupt(inner.r) THEN inner
             ELSE ApplySetter(Head(K).s, inner.r, inner.h, x)

R_always(v) == Fn("always", Undef, <<>>, v)

\* over that hands f the data instead of the focus
R_overWhole(L, f, h, x) ==
    IF f.fn = "always" \/ IsAbrupt(ApplyFn(f, h, x)) THEN OverK(<<L>>, f, h, x)
    ELSE OverK(<<L>>, R_always(ApplyFn(f, h, x)), h, x)

R_view(L, h, x) == ViewK(<<L>>, h, x)
R_over(L, f, h, x) == OverK(<<L>>, f, h, x)
R_set(L, v, h, x) == R_over(L, R_always(v), h, x)

(***************************************************************************)
(* Currying.  view is curried over two arguments, set and over over three: *)
(* a call with fewer arguments than are still missing returns a function   *)
(* holding the ones received, a call that completes them runs the          *)
(* operator.                                                               *)
(***************************************************************************)
ArgLens(L) == [lens |-> L, f |-> NoFn, v |-> Undef]
ArgFn(f) == [lens |-> NoLens, f |-> f, v |-> Undef]
ArgVal(v) == [lens |-> NoLens, f |-> NoFn, v |-> v]

Arity(fn) == IF fn = "view" THEN 2 ELSE 3
Curried(fn, got) == [fn |-> fn, got |-> got]
NoFun == Curried("none", <<>>)

\* the operator proper, called with all its arguments
Invoke(fn, a, h) ==
    CASE fn = "view" -> Out(h, R_view(a[1].lens, h, a[2].v))
      [] fn = "set" -> R_set(a[1].lens, a[2].v, h, a[3].v)
      [] fn = "over" -> R_over(a[1].lens, a[2].f, h, a[3].v)
      [] OTHER -> Out(h, Unmodelled)

\* a call that puts the new arguments before the ones held
CallPrepend(c, args, h) ==
    IF Len(c.got) + Len(args) < Arity(c.fn)
    THEN [fun |-> Curried(c.fn, args \o c.got), out |-> Out(h, Undef)]
    ELSE [fun |-> NoFun, out |-> Invoke(c.fn, args \o c.got, h)]

\* c(...args): fun is the function returned (NoFun when the operator ran), out
\* the operator's result
Call(c, args, h) ==
    IF Len(c.got) + Len(args) < Arity(c.fn)
    THEN [fun |-> Curried(c.fn, c.got \o args), out |-> Out(h, Undef)]
    ELSE [fun |-> NoFun, out |-> Invoke(c.fn, c.got \o args, h)]

(***************************************************************************)
(* The lenses of the script.                                               *)
(***************************************************************************)
firstNameLens == R_lens(Fn("getFirstName", Undef, <<>>, Undef),
                        Fn("setFirstName", Undef, <<>>, Undef))
firstNameLensByPropAndAssoc ==
    R_lens(Fn("prop", Str("firstName"), <<>>, Undef),
           Fn("assoc", Str("firstName"), <<>>, Undef))
lastNameLens == R_lensProp("lastName")
firstPhoneLens == R_lensIndex(0)
homePhoneNumberLens == R_lensPath(<<Str("phones"), Num(0), Str("number")>>)
phonesLens == R_lensProp("phones")
workPhoneLens == R_lensIndex(1)
phoneNumberLens == R_lensProp("number")
workPhoneNumberLens == R_compose(<<phonesLens, workPhoneLens, phoneNumberLens>>)

\* the same three lenses composed two at a time, and the same focus as one path
workPhoneNumberLeft == R_compose(<<R_compose(<<phonesLens, workPhoneLens>>), phoneNumberLens>>)
workPhoneNumberRight == R_compose(<<phonesLens, R_compose(<<workPhoneLens, phoneNumberLens>>)>>)
workPhoneNumberPath == R_lensPath(<<Str("phones"), Num(1), Str("number")>>)
firstNamePath == R_lensPath(<<Str("name"), Str("first")>>)

Lenses ==
    { firstNameLens, firstNameLensByPropAndAssoc, lastNameLens, firstPhoneLens,
      homePhoneNumberLens, workPhoneLens, workPhoneNumberLens, workPhoneNumberLeft,
      workPhoneNumberRight, workPhoneNumberPath, firstNamePath }

\* the kind of container a lens reaches into first
RECURSIVE WholeKind(_)
WholeKind(L) ==
    IF L.kind = "compose" THEN WholeKind(L.parts[1])
    ELSE IF L.g.fn = "nth" THEN "arr"
    ELSE IF L.g.fn = "path" /\ L.g.p[1].t = "num" THEN "arr"
    ELSE "obj"

(***************************************************************************)
(* The data.  `person` as the script writes it, and the records of the     *)
(* same family that lack some of its parts: no name, an empty name, a flat *)
(* firstName and lastName in place of name, no phones, fewer or more       *)
(* phones.                                                                 *)
(***************************************************************************)
PhoneType(j) == IF j = 1 THEN "home" ELSE IF j = 2 THEN "work" ELSE "other"
PhoneNumber(j) ==
    IF j = 1 THEN "5556667777" ELSE IF j = 2 THEN "5554443333" ELSE "5552221111"

NameKinds == {"absent", "empty", "full", "flat"}

PersonHeap(nameKind, hasPhones, n) ==
    LET nameCells ==
            IF nameKind = "empty" THEN <<EmptyObj>>
            ELSE IF nameKind = "full"
            THEN <<ObjCell(<<"first", "last">>, <<Str("John"), Str("Doe")>>)>>
            ELSE <<>>
        a0 == Len(nameCells)
        phoneCells ==
            IF ~hasPhones THEN <<>>
            ELSE [j \in 1..n |-> ObjCell(<<"type", "number">>,
                                         <<Str(PhoneType(j)), Str(PhoneNumber(j))>>)]
                 \o <<ArrCell([j \in 1..n |-> Ref(a0 + j)])>>
        a1 == a0 + Len(phoneCells)
        nameK == IF nameKind = "flat" THEN <<"firstName", "lastName">>
                 ELSE IF nameKind = "absent" THEN <<>> ELSE <<"name">>
        nameV == IF nameKind = "flat" THEN <<Str("John"), Str("Doe")>>
                 ELSE IF nameKind = "absent" THEN <<>> ELSE <<Ref(a0)>>
        phonesK == IF hasPhones THEN <<"phones">> ELSE <<>>
        phonesV == IF hasPhones THEN <<Ref(a1)>> ELSE <<>>
    IN  nameCells \o phoneCells \o <<ObjCell(nameK \o phonesK, nameV \o phonesV)>>

\* the heap every call starts from: the script's constants, without the cells
\* of the last call
Pre == SubSeq(heap, 1, base)

\* the data the script applies lenses to: person, person.phones, and the same
\* of updatedPerson once it is built
Targets ==
    {d \in {person, Member(Pre, person, Str("phones")),
            updated, Member(Pre, updated, Str("phones"))} : d.t = "ref"}
Fits(L, d) == Pre[d.n].kind = WholeKind(L)

\* the value arguments of set: a string (lines 63, 89, 97, 113), the object
\* literal of line 103, and the value the lens already shows
MobileCell == ObjCell(<<"type", "number">>, <<Str("mobile"), Str("5555555555")>>)
ValExprs == {"Jane", "mobile", "viewed"}
EvalVal(e, L, h, d) ==
    CASE e = "mobile" -> Alloc(h, MobileCell)
      [] e = "viewed" -> Out(h, R_view(L, h, d))
      [] OTHER -> Out(h, Str(e))

Transforms == {Fn("toUpper", Undef, <<>>, Undef), Fn("sayHello", Undef, <<>>, Undef)}

NoOp == [name |-> "none", how |-> "none", lens |-> NoLens, f |-> NoFn, d |-> Undef]
OpRec(name, how, L, f, d) == [name |-> name, how |-> how, lens |-> L, f |-> f, d |-> d]

\* the script is between two statements
Idle == op = NoOp

Init ==
    \E nameKind \in NameKinds, hasPhones \in BOOLEAN, n \in 0..MaxPhones :
        /\ hasPhones \/ n = 0
        /\ heap = PersonHeap(nameKind, hasPhones, n)
        /\ base = Len(heap)
        /\ person = Ref(base)
        /\ updated = Undef
        /\ g = NoFun
        /\ op = NoOp
        /\ res = Undef

\* R.view(L, d)
ViewCall(L, d) ==
    LET c == Call(Curried("view", <<>>), <<ArgLens(L), ArgVal(d)>>, Pre)
    IN  /\ Idle /\ Fits(L, d)
        /\ heap' = c.out.h
        /\ res' = c.out.r
        /\ op' = OpRec("view", "full", L, NoFn, d)
        /\ UNCHANGED <<base, person, updated, g>>

\* R.set(L, v, d)
SetCall(L, e, d) ==
    LET v == EvalVal(e, L, Pre, d)
        c == Call(Curried("set", <<>>), <<ArgLens(L), ArgVal(v.r), ArgVal(d)>>, v.h)
    IN  /\ Idle /\ Fits(L, d)
        /\ ~IsAbrupt(v.r)
        /\ heap' = c.out.h
        /\ res' = c.out.r
        /\ op' = OpRec("set", "full", L, R_always(v.r), d)
        /\ UNCHANGED <<base, person, updated, g>>

\* R.over(L, f, d)
OverCall(L, f, d) ==
    LET c == Call(Curried("over", <<>>), <<ArgLens(L), ArgFn(f), ArgVal(d)>>, Pre)
    IN  /\ Idle /\ Fits(L, d)
        /\ heap' = c.out.h
        /\ res' = c.out.r
        /\ op' = OpRec("over", "full", L, f, d)
        /\ UNCHANGED <<base, person, updated, g>>

\* the lenses and values the script configures an operator with ahead of the data
PartialLenses == {firstNameLens, workPhoneNumberLens}
PartialVals == {Str("Jane"), Undef}

\* the arguments that may stand at position pos of operator fn
ArgPool(fn, pos) ==
    IF pos = 1 THEN {ArgLens(L) : L \in PartialLenses}
    ELSE IF pos = Arity(fn) THEN {ArgVal(d) : d \in Targets}
    ELSE IF fn = "set" THEN {ArgVal(v) : v \in PartialVals}
    ELSE {ArgFn(f) : f \in Transforms}

\* the lists of one or two arguments that continue a call which holds k
ArgLists(fn, k) ==
    {<<a>> : a \in ArgPool(fn, k + 1)}
        \cup {<<a, b>> : a \in ArgPool(fn, k + 1), b \in ArgPool(fn, k + 2)}

\* g = R.view(L), R.set(L), R.set(L, v), R.over(L), R.over(L, f)
Partial(fn, as) ==
    LET c == Call(Curried(fn, <<>>), as, Pre)
    IN  /\ Idle
        /\ Len(as) < Arity(fn)
        /\ g' = c.fun
        /\ UNCHANGED <<heap, base, person, updated, op, res>>

\* g = g(...as), still short of the data
SupplyMore(as) ==
    LET c == Call(g, as, Pre)
    IN  /\ Idle
        /\ g # NoFun
        /\ Len(g.got) + Len(as) < Arity(g.fn)
        /\ g' = c.fun
        /\ UNCHANGED <<heap, base, person, updated, op, res>>

\* g(...as) with the data as last argument: the operator runs, g stays as it was
SupplyLast(as) ==
    LET c == Call(g, as, Pre)
        all == g.got \o as
    IN  /\ Idle
        /\ g # NoFun
        /\ Len(all) = Arity(g.fn)
        /\ Fits(all[1].lens, all[Len(all)].v)
        /\ heap' = c.out.h
        /\ res' = c.out.r
        /\ op' = OpRec(g.fn, "curried", all[1].lens,
                       IF g.fn = "set" THEN R_always(all[2].v)
                       ELSE IF g.fn = "over" THEN all[2].f ELSE NoFn,
                       all[Len(all)].v)
        /\ UNCHANGED <<base, person, updated, g>>

\* const greetPerson = R.pipe(R.view(firstNameLens), sayHello); greetPerson(d)
greetPerson(h, d) ==
    LET viewer == Call(Curried("view", <<>>), <<ArgLens(firstNameLens)>>, h).fun
        name == Call(viewer, <<ArgVal(d)>>, h).out.r
    IN  IF IsAbrupt(name) THEN name ELSE sayHello(h, name)

GreetPerson(d) ==
    /\ Idle /\ Fits(firstNameLens, d)
    /\ heap' = Pre
    /\ res' = greetPerson(Pre, d)
    /\ op' = OpRec("greet", "full", firstNameLens, Fn("sayHello", Undef, <<>>, Undef), d)
    /\ UNCHANGED <<base, person, updated, g>>

\* the spread copy without ...otherPhones:
\* {...person, phones: [{...homePhone, number: v}]}
SpreadUpdateDropRest(v, h, p) ==
    LET phones == Member(h, p, Str("phones"))
    IN  IF ~IsArr(h, phones) THEN Out(h, Threw)
        ELSE LET phone == Alloc(h, ObjPut(SpreadCell(h, Member(h, phones, Num(0))),
                                          "number", v))
                 list == Alloc(phone.h, ArrCell(<<phone.r>>))
             IN  Alloc(list.h, ObjPut(h[p.n], "phones", list.r))

\* const [homePhone, ...otherPhones] = person.phones
\* {...person, phones: [{...homePhone, number: v}, ...otherPhones]}
SpreadUpdate(v, h, p) ==
    LET phones == Member(h, p, Str("phones"))
    IN  IF IsAbrupt(phones) \/ IsNil(phones) THEN Out(h, Threw)
        ELSE IF ~IsArr(h, phones) THEN Out(h, Unmodelled)
        ELSE LET homePhone == Member(h, phones, Num(0))
                 elems == h[phones.n].vals
                 otherPhones == Alloc(h, ArrCell(IF elems = <<>> THEN <<>> ELSE Tail(elems)))
             IN  IF ~CanSpread(h, homePhone) THEN Out(h, Unmodelled)
                 ELSE LET phone == Alloc(otherPhones.h,
                                         ObjPut(SpreadCell(h, homePhone), "number", v))
                          list == Alloc(phone.h,
                                        ArrCell(<<phone.r>> \o phone.h[otherPhones.r.n].vals))
                      IN  Alloc(list.h, ObjPut(h[p.n], "phones", list.r))

\* the number the script writes at lines 113 and 121
NewNumber == Str("5558882222")

\* const updatedPerson = ...: the record built is kept as a constant of the script
UpdatedPerson ==
    LET u == SpreadUpdate(NewNumber, Pre, person)
    IN  /\ Idle
        /\ updated = Undef
        /\ heap' = u.h
        /\ res' = u.r
        /\ op' = OpRec("spread", "full", NoLens, R_always(NewNumber), person)
        /\ updated' = IF IsAbrupt(u.r) THEN Undef ELSE u.r
        /\ base' = IF IsAbrupt(u.r) THEN base ELSE Len(u.h)
        /\ UNCHANGED <<person, g>>

\* the statement ends: a result bound to no constant is dropped.  A call that
\* threw has ended the script.
Discard ==
    /\ ~Idle
    /\ ~IsAbrupt(res)
    /\ heap' = Pre
    /\ op' = NoOp
    /\ res' = Undef
    /\ UNCHANGED <<base, person, updated, g>>

Next ==
    \/ \E L \in Lenses, d \in Targets : ViewCall(L, d)
    \/ \E L \in Lenses, e \in ValExprs, d \in Targets : SetCall(L, e, d)
    \/ \E L \in Lenses, f \in Transforms, d \in Targets : OverCall(L, f, d)
    \/ \E fn \in {"view", "set", "over"} : \E as \in ArgLists(fn, 0) : Partial(fn, as)
    \/ \E as \in ArgLists(g.fn, Len(g.got)) : SupplyMore(as)
    \/ \E as \in ArgLists(g.fn, Len(g.got)) : SupplyLast(as)
    \/ \E d \in Targets : GreetPerson(d)
    \/ UpdatedPerson
    \/ Discard

Spec == Init /\ [][Next]_vars

\* every call made stays within the part of JavaScript the model describes
NeverUnmodelled == res # Unmodelled

(***************************************************************************)
(* Properties of the calls.                                                *)
(***************************************************************************)
\* the last statement called operator name and it returned a value
Returned(name) == op.name = name /\ ~IsAbrupt(res)

\* the value set was called with
SetValue == op.f.v

\* Every container the chain K reaches into from x is there and of the kind
\* reached for, and every index reached for is within the sequence.  The
\* last name may be absent; a path lens creates what is absent.
RECURSIVE Compatible(_, _, _)
Compatible(K, h, x) ==
    IF K = <<>> THEN TRUE
    ELSE IF Head(K).kind = "compose" THEN Compatible(Head(K).parts \o Tail(K), h, x)
    ELSE /\ CASE Head(K).g.fn = "nth" ->
                    IsArr(h, x) /\ Head(K).g.k.n < Len(h[x.n].vals)
              [] Head(K).g.fn = "getFirstName" ->
                    IsObj(h, x) /\ IsObj(h, Member(h, x, Str("name")))
              [] Head(K).g.fn = "path" ->
                    IF Head(K).g.p[1].t = "num" THEN IsArr(h, x) ELSE IsObj(h, x)
              [] OTHER -> IsObj(h, x)
         /\ Compatible(Tail(K), h, ApplyGetter(Head(K).g, h, x))

ShapeCompatible(L, h, d) == Compatible(<<L>>, h, d)

\* C1: set(L, v, d) leaves d, person, person.phones and updatedPerson deep-equal
\* to what they were before the call.
C1_SetLeavesDataUnchanged ==
    [][op'.name = "set" =>
          /\ DeepEq(heap', op'.d, heap, op'.d)
          /\ DeepEq(heap', person, heap, person)
          /\ DeepEq(heap', updated, heap, updated)
          /\ \A a \in 1..base : heap'[a] = heap[a]]_vars

\* a set on person that returned a record which differs from person
C1_Witness ==
    /\ Returned("set") /\ op.d = person /\ res.t = "ref"
    /\ ~DeepEq(heap, res, heap, person)
    /\ op.lens = firstNameLens

C10_IndexSetInBounds ==
    (Returned("set") /\ op.lens.kind = "lens" /\ op.lens.g.fn = "nth"
        /\ op.lens.g.k.n >= 0 /\ op.lens.g.k.n < Len(Pre[op.d.n].vals))
        => /\ IsArr(heap, res)
           /\ res # op.d
           /\ Len(heap[res.n].vals) = Len(Pre[op.d.n].vals)
           /\ \A j \in 1..Len(Pre[op.d.n].vals) :
                  heap[res.n].vals[j] =
                      IF j = op.lens.g.k.n + 1 THEN SetValue ELSE Pre[op.d.n].vals[j]

\* the first of two phones replaced by the object literal of line 103
C10_Witness ==
    /\ Returned("set") /\ op.lens = firstPhoneLens
    /\ Len(Pre[op.d.n].vals) = 2
    /\ IsObj(heap, SetValue) /\ heap[SetValue.n] = MobileCell
    /\ heap[res.n].vals[2] = Pre[op.d.n].vals[2]

\* the names and indices p[j..upto] are own keys, each of the level before it
RECURSIVE PathPresent(_, _, _, _, _)
PathPresent(p, j, upto, h, x) ==
    j > upto \/ (Has(h, x, p[j]) /\ PathPresent(p, j + 1, upto, h, Member(h, x, p[j])))

\* every name and index the chain K reaches for is an own key of what it is
\* reached for in
RECURSIVE Present(_, _, _)
Present(K, h, x) ==
    IF K = <<>> THEN TRUE
    ELSE IF Head(K).kind = "compose" THEN Present(Head(K).parts \o Tail(K), h, x)
    ELSE /\ CASE Head(K).g.fn = "getFirstName" ->
                    PathPresent(<<Str("name"), Str("first")>>, 1, 2, h, x)
              [] Head(K).g.fn = "path" ->
                    PathPresent(Head(K).g.p, 1, Len(Head(K).g.p), h, x)
              [] OTHER -> Has(h, x, Head(K).g.k)
         /\ Present(Tail(K), h, ApplyGetter(Head(K).g, h, x))

FocusPresent(L, h, d) == Present(<<L>>, h, d)

\* the heap the last call started from: the constants, and the object literal
\* when the call was given one
CallHeap ==
    IF op.name = "set" /\ SetValue.t = "ref" /\ SetValue.n > base
    THEN SubSeq(heap, 1, SetValue.n)
    ELSE Pre

\* operator name called with all its arguments at once
Direct(name, L, f, d, h) ==
    CASE name = "view" -> Out(h, R_view(L, h, d))
      [] name = "set" -> R_set(L, f.v, h, d)
      [] name = "over" -> R_over(L, f, h, d)
      [] OTHER -> Out(h, Unmodelled)

\* the last call ended as o did: the same failure, or deep-equal values
SameAs(o) ==
    IF IsAbrupt(res) \/ IsAbrupt(o.r) THEN res = o.r ELSE DeepEq(heap, res, o.h, o.r)

\* the last call, made through lens L instead
Through(L) == Direct(op.name, L, op.f, op.d, CallHeap)

\* C3: set(L, view(L, d), d) deep-equals d, for every lens and data, the focus
\* of L absent in d included.
C3_NoOpSet ==
    (Returned("set") /\ SetValue = R_view(op.lens, Pre, op.d))
        => DeepEq(heap, res, Pre, op.d)

\* C3 as amended: set(L, view(L, d), d) deep-equals d when every name and index
\* along the focus of L is present in d.
C3_NoOpSetFocusPresent ==
    (Returned("set") /\ SetValue = R_view(op.lens, Pre, op.d)
        /\ FocusPresent(op.lens, Pre, op.d))
        => DeepEq(heap, res, Pre, op.d)

\* the hand-written lens set to what it shows: a copy was built, equal to person
C3_Witness ==
    /\ Returned("set") /\ SetValue = R_view(op.lens, Pre, op.d)
    /\ FocusPresent(op.lens, Pre, op.d)
    /\ op.lens = firstNameLens /\ res # op.d /\ SetValue = Str("John")

\* C4: over(L, f, d) = set(L, f(view(L, d)), d): f receives what view returns
\* and its result is the new focused part.
C4_OverIsSetOfView ==
    op.name = "over" =>
        LET z == ApplyFn(op.f, Pre, R_view(op.lens, Pre, op.d))
        IN  /\ SameAs(IF IsAbrupt(z) THEN Out(Pre, z) ELSE R_set(op.lens, z, Pre, op.d))
            /\ (~IsAbrupt(res) /\ ShapeCompatible(op.lens, Pre, op.d))
                   => R_view(op.lens, heap, res) = z

\* toUpper over the hand-written lens: the first name is the upper-cased one
C4_Witness ==
    /\ Returned("over") /\ op.f.fn = "toUpper" /\ op.lens = firstNameLens
    /\ R_view(op.lens, Pre, op.d) = Str("John")
    /\ R_view(op.lens, heap, res) = Str("JOHN")

\* the lenses composed in C5
BasicLenses == {phonesLens, workPhoneLens, phoneNumberLens, firstPhoneLens}
ComposeLeft(A, B, C) == R_compose(<<R_compose(<<A, B>>), C>>)
ComposeRight(A, B, C) == R_compose(<<A, R_compose(<<B, C>>)>>)

\* C5: compose(compose(A, B), C) and compose(A, compose(B, C)) give the same
\* result under view and under set, and for phonesLens, workPhoneLens and
\* phoneNumberLens both agree with the flat compose of the three.
C5_ComposeAssociative ==
    /\ op.lens \in {workPhoneNumberLens, workPhoneNumberLeft, workPhoneNumberRight}
           => /\ SameAs(Through(workPhoneNumberLens))
              /\ SameAs(Through(workPhoneNumberLeft))
              /\ SameAs(Through(workPhoneNumberRight))
    /\ op.lens = workPhoneNumberLeft
           => \A A \in BasicLenses, B \in BasicLenses, C \in BasicLenses :
                  LET l == Direct(op.name, ComposeLeft(A, B, C), op.f, op.d, CallHeap)
                      r == Direct(op.name, ComposeRight(A, B, C), op.f, op.d, CallHeap)
                  IN  IF IsAbrupt(l.r) \/ IsAbrupt(r.r) THEN l.r = r.r
                      ELSE DeepEq(l.h, l.r, r.h, r.r)

\* a set through compose(phonesLens, compose(workPhoneLens, phoneNumberLens))
\* that changed the work number
C5_Witness ==
    /\ Returned("set") /\ op.lens = workPhoneNumberRight
    /\ SetValue = Str("Jane")
    /\ R_view(workPhoneNumberLeft, heap, res) = Str("Jane")
    /\ R_view(workPhoneNumberLens, Pre, op.d) = Str("5554443333")

\* the composition of one lensProp or lensIndex per segment of p, outermost first
PathAsCompose(p) ==
    R_compose([j \in 1..Len(p) |->
                  IF p[j].t = "num" THEN R_lensIndex(p[j].n) ELSE R_lensProp(p[j].s)])

IsPathLens(L) == L.kind = "lens" /\ L.g.fn = "path"

\* C6: on data whose intermediate levels are all present, lensPath(p) behaves
\* under view and set as the composition of one lens per segment.
C6_PathIsCompose ==
    /\ (IsPathLens(op.lens)
          /\ PathPresent(op.lens.g.p, 1, Len(op.lens.g.p) - 1, Pre, op.d))
           => SameAs(Through(PathAsCompose(op.lens.g.p)))
    /\ (op.lens = workPhoneNumberLens
          /\ PathPresent(workPhoneNumberPath.g.p, 1, 2, Pre, op.d))
           => SameAs(Through(workPhoneNumberPath))

\* a set through lensPath(['phones', 1, 'number']) on a person with two phones
C6_Witness ==
    /\ Returned("set") /\ op.lens = workPhoneNumberPath /\ SetValue = Str("Jane")
    /\ PathPresent(op.lens.g.p, 1, 2, Pre, op.d)
    /\ R_view(workPhoneNumberLens, heap, res) = Str("Jane")

\* C7: view(lensPath(p), d) is undefined, and does not fail, when a level along
\* p is absent in d.
C7_PathViewAbsent ==
    (op.name = "view" /\ IsPathLens(op.lens)
        /\ ~PathPresent(op.lens.g.p, 1, Len(op.lens.g.p), Pre, op.d))
        => res = Undef

\* view(lensPath(['phones', 0, 'number']), d) on a d with no phones key
C7_Witness ==
    /\ op.name = "view" /\ op.lens = homePhoneNumberLens
    /\ ~Has(Pre, op.d, Str("phones"))
    /\ res = Undef

\* C8: set(lensPath(['phones', 0, 'number']), v, person) deep-equals the record
\* built by spread copying, and differs from person at phones[0].number only.
C8_PathSetFrame ==
    (Returned("set") /\ op.lens = homePhoneNumberLens
        /\ IsArr(Pre, Member(Pre, op.d, Str("phones"))))
        => LET u == SpreadUpdate(SetValue, CallHeap, op.d)
               old == Pre[op.d.n]
               new == heap[res.n]
               oldPhones == Pre[Member(Pre, op.d, Str("phones")).n].vals
               newPhones == heap[Member(heap, res, Str("phones")).n].vals
           IN  /\ DeepEq(heap, res, u.h, u.r)
               /\ res # op.d
               /\ new.keys = old.keys
               /\ \A j \in 1..Len(old.keys) :
                      old.keys[j] # "phones" => new.vals[j] = old.vals[j]
               /\ Len(newPhones) = IF oldPhones = <<>> THEN 1 ELSE Len(oldPhones)
               /\ \A j \in 2..Len(oldPhones) : newPhones[j] = oldPhones[j]
               /\ Member(heap, newPhones[1], Str("number")) = SetValue
               /\ oldPhones # <<>> =>
                      /\ newPhones[1] # oldPhones[1]
                      /\ heap[newPhones[1].n].keys = Pre[oldPhones[1].n].keys
                      /\ Member(heap, newPhones[1], Str("type"))
                             = Member(Pre, oldPhones[1], Str("type"))

\* the set of line 113 on the person of the script
C8_Witness ==
    /\ Returned("set") /\ op.lens = homePhoneNumberLens /\ op.d = person
    /\ SetValue = Str("Jane")
    /\ PathPresent(<<Str("name"), Str("first")>>, 1, 2, Pre, person)
    /\ IsArr(Pre, Member(Pre, person, Str("phones")))
    /\ Len(Pre[Member(Pre, person, Str("phones")).n].vals) = 2
    /\ Member(heap, res, Str("name")) = Member(Pre, person, Str("name"))

\* C9: a partially applied view, set or over, given the rest of its arguments,
\* returns what the full call returns, on every data it is used on, and stays
\* usable; greetPerson(d) is sayHello(view(firstNameLens, d)).
C9_PartialApplication ==
    /\ op.how = "curried"
           => /\ SameAs(Direct(op.name, op.lens, op.f, op.d, Pre))
              /\ g.fn = op.name
              /\ g.got[1] = ArgLens(op.lens)
    /\ op.name = "greet"
           => res = (LET name == R_view(firstNameLens, Pre, op.d)
                     IN  IF IsAbrupt(name) THEN name ELSE sayHello(Pre, name))

\* set(L)(v) held as g, used on updatedPerson
C9_Witness ==
    /\ Returned("set") /\ op.how = "curried" /\ Len(g.got) = 2
    /\ op.d = updated /\ updated # person
    /\ R_view(op.lens, heap, res) = Str("Jane")

====
